---- MODULE Spec2Model ----
(***************************************************************************)
(* Progressive locks (plock.h), 32-bit lock word.                          *)
(*                                                                         *)
(* The lock word is an unsigned 32-bit integer.  It is kept as its two     *)
(* 16-bit halves, [hi, lo], so that every addition, subtraction and mask   *)
(* is computed exactly modulo 2^32:                                        *)
(*     lo = bits  0..15 : bits 0-1 are the caller's, bits 2..15 are R      *)
(*     hi = bits 16..31 : bits 16-17 are S, bits 18..31 are W              *)
(* Every access of a thread to the lock word is one step; what a thread    *)
(* computes on its registers between two accesses belongs to the step of   *)
(* the access that feeds it.  pc[t] is either the state the thread holds   *)
(* between two calls ("U" when it holds nothing, "R", "S", "W", "A", "J",  *)
(* "C"; "SW" is W reached from S through pl_stow) or its position inside a *)
(* call.                                                                   *)
(***************************************************************************)
EXTENDS Bags, Integers, Naturals, FiniteSets, Sequences, TLC

VARIABLES lock,   \* the lock word
          pc,     \* per thread: held state between calls, or position in a call
          init    \* the value the lock word was initialised with (never written)

vars == <<lock, pc, init>>

----------------------------------------------------------------------------
(* 32-bit unsigned arithmetic on [hi, lo] *)

Half == 2^16

W32(h, l) == [hi |-> h, lo |-> l]

Zero32 == W32(0, 0)

Add32(a, b) ==
    LET l == a.lo + b.lo
    IN  W32((a.hi + b.hi + (l \div Half)) % Half, l % Half)

Neg32(a) ==
    IF a.lo = 0 THEN W32((Half - a.hi) % Half, 0)
                ELSE W32(Half - 1 - a.hi, Half - a.lo)

Sub32(a, b) == Add32(a, Neg32(b))

RECURSIVE And16(_, _, _)
And16(a, b, n) ==
    IF n = 0 \/ a = 0 \/ b = 0 THEN 0
    ELSE (a % 2) * (b % 2) + 2 * And16(a \div 2, b \div 2, n - 1)

RECURSIVE Or16(_, _, _)
Or16(a, b, n) ==
    IF n = 0 THEN 0
    ELSE IF a = 0 THEN b
    ELSE IF b = 0 THEN a
    ELSE (IF a % 2 = 1 \/ b % 2 = 1 THEN 1 ELSE 0)
         + 2 * Or16(a \div 2, b \div 2, n - 1)

And32(a, b) == W32(And16(a.hi, b.hi, 16), And16(a.lo, b.lo, 16))

Or32(a, b) == W32(Or16(a.hi, b.hi, 16), Or16(a.lo, b.lo, 16))

Not32(a) == W32(Half - 1 - a.hi, Half - 1 - a.lo)

----------------------------------------------------------------------------
(* the 32-bit masks *)

PLOCK32_RL_1   == W32(0, 4)          \* 0x00000004
PLOCK32_RL_2PL == W32(0, 65528)      \* 0x0000FFF8
PLOCK32_RL_ANY == W32(0, 65532)      \* 0x0000FFFC
PLOCK32_SL_1   == W32(1, 0)          \* 0x00010000
PLOCK32_SL_ANY == W32(3, 0)          \* 0x00030000
PLOCK32_WL_1   == W32(4, 0)          \* 0x00040000
PLOCK32_WL_2PL == W32(65528, 0)      \* 0xFFF80000
PLOCK32_WL_ANY == W32(65532, 0)      \* 0xFFFC0000

WS_ANY == Or32(PLOCK32_WL_ANY, PLOCK32_SL_ANY)

SR_1   == Or32(PLOCK32_SL_1, PLOCK32_RL_1)

WS_1   == Or32(PLOCK32_WL_1, PLOCK32_SL_1)

(* faulty variant of WSR_1: a writer adds W and R only *)
WR_1 == Or32(PLOCK32_WL_1, PLOCK32_RL_1)

WSR_1  == Or32(PLOCK32_WL_1, Or32(PLOCK32_SL_1, PLOCK32_RL_1))

(* the atomic operations, as the new value of the word; pl_xadd returns the
   value before the addition, which is the word of the current state *)
pl_xadd(v, x) == Add32(v, x)

pl_add(v, x) == Add32(v, x)

pl_sub(v, x) == Sub32(v, x)

pl_or(v, x) == Or32(v, x)

pl_and(v, x) == And32(v, x)

(* (v & mask) != 0 *)
Bits(v, mask) == And32(v, mask) # Zero32

(* one thread moves to label l *)
Goto(t, l) == pc' = [pc EXCEPT ![t] = l]

(* pl_wait_unlock_int: reads the word until no bit of mask is set; the
   backoff between two reads touches no shared state *)
pl_wait_unlock_int(t, mask, next) ==
    /\ IF Bits(lock, mask) THEN pc' = pc ELSE Goto(t, next)
    /\ UNCHANGED <<lock, init>>

Threads == DOMAIN pc

----------------------------------------------------------------------------
(* R: shared read access *)

pl_try_r(t) ==
    /\ pc[t] = "U"
    /\ IF Bits(lock, PLOCK32_WL_ANY) THEN pc' = pc ELSE Goto(t, "try_r_xadd")
    /\ UNCHANGED <<lock, init>>

pl_try_r_xadd(t) ==
    /\ pc[t] = "try_r_xadd"
    /\ lock' = pl_xadd(lock, PLOCK32_RL_1)
    /\ IF Bits(lock, PLOCK32_WL_ANY) THEN Goto(t, "try_r_sub") ELSE Goto(t, "R")
    /\ UNCHANGED init

(* faulty variant of pl_try_r_sub: a refused pl_try_r returns without taking
   its R1 back *)
pl_try_r_sub_forgotten(t) ==
    /\ pc[t] = "try_r_sub"
    /\ Goto(t, "U")
    /\ UNCHANGED <<lock, init>>

pl_try_r_sub(t) ==
    /\ pc[t] = "try_r_sub"
    /\ lock' = pl_sub(lock, PLOCK32_RL_1)
    /\ Goto(t, "U")
    /\ UNCHANGED init

(* faulty variant of pl_take_r: the first read also takes the S bits for a
   conflict *)
pl_take_r_ws(t) ==
    /\ pc[t] \in {"U", "take_r_top"}
    /\ IF Bits(lock, WS_ANY) THEN Goto(t, "take_r_wait")
                             ELSE Goto(t, "take_r_xadd")
    /\ UNCHANGED <<lock, init>>

pl_take_r(t) ==
    /\ pc[t] \in {"U", "take_r_top"}
    /\ IF Bits(lock, PLOCK32_WL_ANY) THEN Goto(t, "take_r_wait")
                                     ELSE Goto(t, "take_r_xadd")
    /\ UNCHANGED <<lock, init>>

pl_take_r_wait(t) ==
    /\ pc[t] = "take_r_wait"
    /\ pl_wait_unlock_int(t, PLOCK32_WL_ANY, "take_r_xadd")

(* faulty variant of pl_take_r_xadd: the value returned by the fetch-add is
   not tested, the reader enters whatever it finds *)
pl_take_r_xadd_unchecked(t) ==
    /\ pc[t] = "take_r_xadd"
    /\ lock' = pl_xadd(lock, PLOCK32_RL_1)
    /\ Goto(t, "R")
    /\ UNCHANGED init

pl_take_r_xadd(t) ==
    /\ pc[t] = "take_r_xadd"
    /\ lock' = pl_xadd(lock, PLOCK32_RL_1)
    /\ IF Bits(lock, PLOCK32_WL_ANY) THEN Goto(t, "take_r_sub") ELSE Goto(t, "R")
    /\ UNCHANGED init

pl_take_r_sub(t) ==
    /\ pc[t] = "take_r_sub"
    /\ lock' = pl_sub(lock, PLOCK32_RL_1)
    /\ Goto(t, "take_r_top")
    /\ UNCHANGED init

pl_drop_r(t) ==
    /\ pc[t] = "R"
    /\ lock' = pl_sub(lock, PLOCK32_RL_1)
    /\ Goto(t, "U")
    /\ UNCHANGED init

----------------------------------------------------------------------------
(* S: seek access *)

pl_try_s(t) ==
    /\ pc[t] = "U"
    /\ IF Bits(lock, WS_ANY) THEN pc' = pc ELSE Goto(t, "try_s_xadd")
    /\ UNCHANGED <<lock, init>>

(* faulty variant of pl_try_s_xadd: the value returned by the fetch-add is
   not tested, the first read of pl_try_s is trusted *)
pl_try_s_xadd_unchecked(t) ==
    /\ pc[t] = "try_s_xadd"
    /\ lock' = pl_xadd(lock, SR_1)
    /\ Goto(t, "S")
    /\ UNCHANGED init

pl_try_s_xadd(t) ==
    /\ pc[t] = "try_s_xadd"
    /\ lock' = pl_xadd(lock, SR_1)
    /\ IF Bits(lock, WS_ANY) THEN Goto(t, "try_s_sub") ELSE Goto(t, "S")
    /\ UNCHANGED init

pl_try_s_sub(t) ==
    /\ pc[t] = "try_s_sub"
    /\ lock' = pl_sub(lock, SR_1)
    /\ Goto(t, "U")
    /\ UNCHANGED init

(* faulty variant of pl_take_s: only the W bits of the value returned by the
   fetch-add are tested, a seeker already present goes unnoticed *)
pl_take_s_w_only(t) ==
    /\ pc[t] \in {"U", "take_s_top"}
    /\ lock' = pl_xadd(lock, SR_1)
    /\ IF Bits(lock, PLOCK32_WL_ANY) THEN Goto(t, "take_s_sub") ELSE Goto(t, "S")
    /\ UNCHANGED init

pl_take_s(t) ==
    /\ pc[t] \in {"U", "take_s_top"}
    /\ lock' = pl_xadd(lock, SR_1)
    /\ IF Bits(lock, WS_ANY) THEN Goto(t, "take_s_sub") ELSE Goto(t, "S")
    /\ UNCHANGED init

(* faulty variant of pl_take_s_sub: a refused pl_take_s takes back its S1
   and leaves its R1 in the word *)
pl_take_s_sub_keeps_r(t) ==
    /\ pc[t] = "take_s_sub"
    /\ lock' = pl_sub(lock, PLOCK32_SL_1)
    /\ Goto(t, "take_s_wait")
    /\ UNCHANGED init

pl_take_s_sub(t) ==
    /\ pc[t] = "take_s_sub"
    /\ lock' = pl_sub(lock, SR_1)
    /\ Goto(t, "take_s_wait")
    /\ UNCHANGED init

pl_take_s_wait(t) ==
    /\ pc[t] = "take_s_wait"
    /\ pl_wait_unlock_int(t, WS_ANY, "take_s_top")

(* faulty variant of pl_drop_s: the S bit is released, the R count is not *)
pl_drop_s_keeps_r(t) ==
    /\ pc[t] = "S"
    /\ lock' = pl_sub(lock, PLOCK32_SL_1)
    /\ Goto(t, "U")
    /\ UNCHANGED init

pl_drop_s(t) ==
    /\ pc[t] = "S"
    /\ lock' = pl_sub(lock, Add32(PLOCK32_SL_1, PLOCK32_RL_1))
    /\ Goto(t, "U")
    /\ UNCHANGED init

pl_stor(t) ==
    /\ pc[t] = "S"
    /\ lock' = pl_sub(lock, PLOCK32_SL_1)
    /\ Goto(t, "R")
    /\ UNCHANGED init

(* (__pl_r & PLOCK32_RL_ANY) != PLOCK32_RL_1: the wait condition of pl_stow *)
(* faulty variant of StowMustWait: pl_stow returns without waiting for the
   readers to leave *)
StowMustWait_never(v) == FALSE

StowMustWait(v) == And32(v, PLOCK32_RL_ANY) # PLOCK32_RL_1

pl_stow(t) ==
    /\ pc[t] = "S"
    /\ lock' = pl_xadd(lock, PLOCK32_WL_1)
    /\ IF StowMustWait(lock) THEN Goto(t, "stow_wait") ELSE Goto(t, "SW")
    /\ UNCHANGED init

pl_stow_wait(t) ==
    /\ pc[t] = "stow_wait"
    /\ IF StowMustWait(lock) THEN pc' = pc ELSE Goto(t, "SW")
    /\ UNCHANGED <<lock, init>>

pl_wtos(t) ==
    /\ pc[t] \in {"W", "SW"}
    /\ lock' = pl_sub(lock, PLOCK32_WL_1)
    /\ Goto(t, "S")
    /\ UNCHANGED init

(* faulty variant of pl_wtor: R is released together with W and S *)
pl_wtor_drops_r(t) ==
    /\ pc[t] \in {"W", "SW"}
    /\ lock' = pl_sub(lock, WSR_1)
    /\ Goto(t, "R")
    /\ UNCHANGED init

pl_wtor(t) ==
    /\ pc[t] \in {"W", "SW"}
    /\ lock' = pl_sub(lock, WS_1)
    /\ Goto(t, "R")
    /\ UNCHANGED init

----------------------------------------------------------------------------
(* W: write access *)

(* the loop "while (__pl_r) __pl_r = *lock - (W1|S1|R1)" of pl_try_w,
   pl_take_w and pl_try_rtow ends when the value read minus W1|S1|R1 is 0 *)
WDrained(v) == Sub32(v, WSR_1) = Zero32

pl_try_w(t) ==
    /\ pc[t] = "U"
    /\ IF Bits(lock, WS_ANY) THEN pc' = pc ELSE Goto(t, "try_w_xadd")
    /\ UNCHANGED <<lock, init>>

pl_try_w_xadd(t) ==
    /\ pc[t] = "try_w_xadd"
    /\ lock' = pl_xadd(lock, WSR_1)
    /\ IF Bits(lock, WS_ANY) THEN Goto(t, "try_w_sub")
       ELSE IF lock = Zero32 THEN Goto(t, "W")
       ELSE Goto(t, "try_w_drain")
    /\ UNCHANGED init

(* faulty variant of pl_try_w_sub: W and S are taken back, R is not *)
pl_try_w_sub_keeps_r(t) ==
    /\ pc[t] = "try_w_sub"
    /\ lock' = pl_sub(lock, WS_1)
    /\ Goto(t, "U")
    /\ UNCHANGED init

pl_try_w_sub(t) ==
    /\ pc[t] = "try_w_sub"
    /\ lock' = pl_sub(lock, WSR_1)
    /\ Goto(t, "U")
    /\ UNCHANGED init

pl_try_w_drain(t) ==
    /\ pc[t] = "try_w_drain"
    /\ IF WDrained(lock) THEN Goto(t, "W") ELSE pc' = pc
    /\ UNCHANGED <<lock, init>>

pl_take_w(t) ==
    /\ pc[t] \in {"U", "take_w_top"}
    /\ lock' = pl_xadd(lock, WSR_1)
    /\ IF Bits(lock, WS_ANY) THEN Goto(t, "take_w_sub")
       ELSE IF lock = Zero32 THEN Goto(t, "W")
       ELSE Goto(t, "take_w_drain")
    /\ UNCHANGED init

(* faulty variant of pl_take_w_sub: a refused attempt goes on to wait
   without taking its addition back *)
pl_take_w_sub_forgotten(t) ==
    /\ pc[t] = "take_w_sub"
    /\ Goto(t, "take_w_wait")
    /\ UNCHANGED <<lock, init>>

pl_take_w_sub(t) ==
    /\ pc[t] = "take_w_sub"
    /\ lock' = pl_sub(lock, WSR_1)
    /\ Goto(t, "take_w_wait")
    /\ UNCHANGED init

(* faulty variant of pl_take_w_wait: once the word is seen free the caller
   enters, instead of trying its fetch-add again *)
pl_take_w_wait_no_retry(t) ==
    /\ pc[t] = "take_w_wait"
    /\ pl_wait_unlock_int(t, WS_ANY, "W")

pl_take_w_wait(t) ==
    /\ pc[t] = "take_w_wait"
    /\ pl_wait_unlock_int(t, WS_ANY, "take_w_top")

pl_take_w_drain(t) ==
    /\ pc[t] = "take_w_drain"
    /\ IF WDrained(lock) THEN Goto(t, "W") ELSE pc' = pc
    /\ UNCHANGED <<lock, init>>

(* faulty variant of pl_drop_w: S and R are released, the W bit is not *)
pl_drop_w_keeps_w(t) ==
    /\ pc[t] \in {"W", "SW"}
    /\ lock' = pl_sub(lock, SR_1)
    /\ Goto(t, "U")
    /\ UNCHANGED init

pl_drop_w(t) ==
    /\ pc[t] \in {"W", "SW"}
    /\ lock' = pl_sub(lock, WSR_1)
    /\ Goto(t, "U")
    /\ UNCHANGED init

----------------------------------------------------------------------------
(* upgrades from R *)

pl_try_rtos(t) ==
    /\ pc[t] = "R"
    /\ IF Bits(lock, WS_ANY) THEN pc' = pc ELSE Goto(t, "try_rtos_xadd")
    /\ UNCHANGED <<lock, init>>

(* faulty variant of pl_try_rtos_xadd: only the W bits of the value returned
   by the fetch-add are tested *)
pl_try_rtos_xadd_w_only(t) ==
    /\ pc[t] = "try_rtos_xadd"
    /\ lock' = pl_xadd(lock, PLOCK32_SL_1)
    /\ IF Bits(lock, PLOCK32_WL_ANY) THEN Goto(t, "try_rtos_sub") ELSE Goto(t, "S")
    /\ UNCHANGED init

pl_try_rtos_xadd(t) ==
    /\ pc[t] = "try_rtos_xadd"
    /\ lock' = pl_xadd(lock, PLOCK32_SL_1)
    /\ IF Bits(lock, WS_ANY) THEN Goto(t, "try_rtos_sub") ELSE Goto(t, "S")
    /\ UNCHANGED init

pl_try_rtos_sub(t) ==
    /\ pc[t] = "try_rtos_sub"
    /\ lock' = pl_sub(lock, PLOCK32_SL_1)
    /\ Goto(t, "R")
    /\ UNCHANGED init

pl_try_rtow(t) ==
    /\ pc[t] \in {"R", "try_rtow_top"}
    /\ lock' = pl_xadd(lock, WS_1)
    /\ IF Bits(lock, WS_ANY) THEN Goto(t, "try_rtow_undo")
       ELSE IF lock = Zero32 THEN Goto(t, "W")
       ELSE Goto(t, "try_rtow_drain")
    /\ UNCHANGED init

(* "if (pl_xadd(lock, -set)) break; continue;": the value before the
   subtraction decides between giving up and trying again *)
pl_try_rtow_undo(t) ==
    /\ pc[t] = "try_rtow_undo"
    /\ lock' = pl_xadd(lock, Neg32(WS_1))
    /\ IF lock # Zero32 THEN Goto(t, "R") ELSE Goto(t, "try_rtow_top")
    /\ UNCHANGED init

(* faulty variant of pl_try_rtow_drain: the caller enters without waiting
   for the readers to leave *)
pl_try_rtow_drain_no_wait(t) ==
    /\ pc[t] = "try_rtow_drain"
    /\ Goto(t, "W")
    /\ UNCHANGED <<lock, init>>

pl_try_rtow_drain(t) ==
    /\ pc[t] = "try_rtow_drain"
    /\ IF WDrained(lock) THEN Goto(t, "W") ELSE pc' = pc
    /\ UNCHANGED <<lock, init>>

----------------------------------------------------------------------------
(* A: atomic write access *)

pl_try_a(t) ==
    /\ pc[t] = "U"
    /\ IF Bits(lock, PLOCK32_SL_ANY) THEN pc' = pc ELSE Goto(t, "try_a_xadd")
    /\ UNCHANGED <<lock, init>>

(* faulty variant of AfterA: the caller enters as soon as no S bit is seen,
   without waiting for the R field to read 0 *)
AfterA_s_only(t, v, undo, wait) ==
    IF Bits(v, PLOCK32_SL_ANY) THEN Goto(t, undo)
    ELSE Goto(t, "A")

(* one turn of the loop of pl_try_a and pl_try_rtoa on the value v just
   obtained: give up when S is set, succeed when R is 0, else read again *)
AfterA(t, v, undo, wait) ==
    IF Bits(v, PLOCK32_SL_ANY) THEN Goto(t, undo)
    ELSE IF ~Bits(v, PLOCK32_RL_ANY) THEN Goto(t, "A")
    ELSE Goto(t, wait)

pl_try_a_xadd(t) ==
    /\ pc[t] = "try_a_xadd"
    /\ lock' = pl_xadd(lock, PLOCK32_WL_1)
    /\ AfterA(t, lock, "try_a_sub", "try_a_wait")
    /\ UNCHANGED init

pl_try_a_wait(t) ==
    /\ pc[t] = "try_a_wait"
    /\ AfterA(t, lock, "try_a_sub", "try_a_wait")
    /\ UNCHANGED <<lock, init>>

pl_try_a_sub(t) ==
    /\ pc[t] = "try_a_sub"
    /\ lock' = pl_sub(lock, PLOCK32_WL_1)
    /\ Goto(t, "U")
    /\ UNCHANGED init

(* faulty variant of AfterTakeA: the W bits of the other atomic writers are
   waited for like R bits *)
AfterTakeA_exclusive(t, v) ==
    IF ~Bits(v, Or32(PLOCK32_RL_ANY, PLOCK32_WL_ANY)) THEN Goto(t, "A")
    ELSE IF Bits(v, PLOCK32_SL_ANY) THEN Goto(t, "take_a_sub")
    ELSE Goto(t, "take_a_read")

(* one turn of the loop of pl_take_a on the value v just obtained: done when
   R is 0, back out when S is set, else read again *)
AfterTakeA(t, v) ==
    IF ~Bits(v, PLOCK32_RL_ANY) THEN Goto(t, "A")
    ELSE IF Bits(v, PLOCK32_SL_ANY) THEN Goto(t, "take_a_sub")
    ELSE Goto(t, "take_a_read")

pl_take_a(t) ==
    /\ pc[t] \in {"U", "take_a_top"}
    /\ lock' = pl_xadd(lock, PLOCK32_WL_1)
    /\ AfterTakeA(t, lock)
    /\ UNCHANGED init

pl_take_a_read(t) ==
    /\ pc[t] = "take_a_read"
    /\ AfterTakeA(t, lock)
    /\ UNCHANGED <<lock, init>>

pl_take_a_sub(t) ==
    /\ pc[t] = "take_a_sub"
    /\ lock' = pl_sub(lock, PLOCK32_WL_1)
    /\ Goto(t, "take_a_wait")
    /\ UNCHANGED init

pl_take_a_wait(t) ==
    /\ pc[t] = "take_a_wait"
    /\ pl_wait_unlock_int(t, PLOCK32_SL_ANY, "take_a_top")

pl_drop_a(t) ==
    /\ pc[t] = "A"
    /\ lock' = pl_sub(lock, PLOCK32_WL_1)
    /\ Goto(t, "U")
    /\ UNCHANGED init

(* pl_ator: __pl_r = pl_xadd(lock, R1 - W1) + (R1 - W1), then waits for W = 0 *)
pl_ator(t) ==
    /\ pc[t] = "A"
    /\ lock' = pl_xadd(lock, Sub32(PLOCK32_RL_1, PLOCK32_WL_1))
    /\ IF Bits(lock', PLOCK32_WL_ANY) THEN Goto(t, "ator_wait") ELSE Goto(t, "R")
    /\ UNCHANGED init

pl_ator_wait(t) ==
    /\ pc[t] = "ator_wait"
    /\ pl_wait_unlock_int(t, PLOCK32_WL_ANY, "R")

pl_try_rtoa(t) ==
    /\ pc[t] = "R"
    /\ IF Bits(lock, PLOCK32_SL_ANY) THEN pc' = pc ELSE Goto(t, "try_rtoa_xadd")
    /\ UNCHANGED <<lock, init>>

(* faulty variant of pl_try_rtoa_xadd: the caller does not wait for the
   other readers to leave *)
pl_try_rtoa_xadd_no_wait(t) ==
    /\ pc[t] = "try_rtoa_xadd"
    /\ lock' = pl_xadd(lock, Sub32(PLOCK32_WL_1, PLOCK32_RL_1))
    /\ IF Bits(lock, PLOCK32_SL_ANY) THEN Goto(t, "try_rtoa_sub") ELSE Goto(t, "A")
    /\ UNCHANGED init

pl_try_rtoa_xadd(t) ==
    /\ pc[t] = "try_rtoa_xadd"
    /\ lock' = pl_xadd(lock, Sub32(PLOCK32_WL_1, PLOCK32_RL_1))
    /\ AfterA(t, lock, "try_rtoa_sub", "try_rtoa_wait")
    /\ UNCHANGED init

pl_try_rtoa_wait(t) ==
    /\ pc[t] = "try_rtoa_wait"
    /\ AfterA(t, lock, "try_rtoa_sub", "try_rtoa_wait")
    /\ UNCHANGED <<lock, init>>

pl_try_rtoa_sub(t) ==
    /\ pc[t] = "try_rtoa_sub"
    /\ lock' = pl_sub(lock, Sub32(PLOCK32_WL_1, PLOCK32_RL_1))
    /\ Goto(t, "R")
    /\ UNCHANGED init

----------------------------------------------------------------------------
(* the multiple writers model: U -> R -> J -> C -> A *)

(* __pl_r / PLOCK32_WL_1 == (__pl_r & PLOCK32_RL_ANY) / PLOCK32_RL_1 *)
WEqualsR(v) == v.hi \div PLOCK32_WL_1.hi = And32(v, PLOCK32_RL_ANY).lo \div PLOCK32_RL_1.lo

pl_rtoj(t) ==
    /\ pc[t] = "R"
    /\ lock' = pl_xadd(lock, PLOCK32_WL_1)
    /\ IF ~Bits(lock', PLOCK32_SL_ANY) /\ ~WEqualsR(lock')
       THEN Goto(t, "rtoj_wait") ELSE Goto(t, "J")
    /\ UNCHANGED init

pl_rtoj_wait(t) ==
    /\ pc[t] = "rtoj_wait"
    /\ IF ~Bits(lock, PLOCK32_SL_ANY) /\ ~WEqualsR(lock)
       THEN pc' = pc ELSE Goto(t, "J")
    /\ UNCHANGED <<lock, init>>

pl_jtoc(t) ==
    /\ pc[t] = "J"
    /\ IF ~Bits(lock, PLOCK32_SL_ANY) THEN Goto(t, "jtoc_or") ELSE Goto(t, "C")
    /\ UNCHANGED <<lock, init>>

pl_jtoc_or(t) ==
    /\ pc[t] = "jtoc_or"
    /\ lock' = pl_or(lock, PLOCK32_SL_1)
    /\ Goto(t, "C")
    /\ UNCHANGED init

(* one turn of the loop of pl_rtoc on the value v just obtained *)
AfterRtoc(t, v) ==
    IF Bits(v, PLOCK32_SL_ANY) THEN Goto(t, "C")
    ELSE IF WEqualsR(v) THEN Goto(t, "rtoc_or")
    ELSE Goto(t, "rtoc_wait")

pl_rtoc(t) ==
    /\ pc[t] = "R"
    /\ lock' = pl_xadd(lock, PLOCK32_WL_1)
    /\ AfterRtoc(t, lock')
    /\ UNCHANGED init

pl_rtoc_wait(t) ==
    /\ pc[t] = "rtoc_wait"
    /\ AfterRtoc(t, lock)
    /\ UNCHANGED <<lock, init>>

pl_rtoc_or(t) ==
    /\ pc[t] = "rtoc_or"
    /\ lock' = pl_or(lock, PLOCK32_SL_1)
    /\ Goto(t, "C")
    /\ UNCHANGED init

pl_drop_c(t) ==
    /\ pc[t] = "C"
    /\ lock' = pl_xadd(lock, Sub32(Neg32(PLOCK32_RL_1), PLOCK32_WL_1))
    /\ IF ~Bits(lock', PLOCK32_RL_ANY) THEN Goto(t, "drop_c_and") ELSE Goto(t, "U")
    /\ UNCHANGED init

(* faulty variant of pl_drop_c_and: S is cleared by keeping the W and R
   fields, which clears bits 0-1 as well *)
pl_drop_c_and_fields(t) ==
    /\ pc[t] = "drop_c_and"
    /\ lock' = pl_and(lock, Or32(PLOCK32_WL_ANY, PLOCK32_RL_ANY))
    /\ Goto(t, "U")
    /\ UNCHANGED init

pl_drop_c_and(t) ==
    /\ pc[t] = "drop_c_and"
    /\ lock' = pl_and(lock, Not32(PLOCK32_SL_1))
    /\ Goto(t, "U")
    /\ UNCHANGED init

(* one turn of the loop of pl_ctoa on the value v just obtained *)
AfterCtoa(t, v) ==
    IF ~Bits(v, PLOCK32_SL_ANY) THEN Goto(t, "A")
    ELSE IF ~Bits(v, PLOCK32_RL_ANY) THEN Goto(t, "ctoa_and")
    ELSE Goto(t, "ctoa_wait")

pl_ctoa(t) ==
    /\ pc[t] = "C"
    /\ lock' = pl_xadd(lock, Neg32(PLOCK32_RL_1))
    /\ AfterCtoa(t, lock')
    /\ UNCHANGED init

pl_ctoa_wait(t) ==
    /\ pc[t] = "ctoa_wait"
    /\ AfterCtoa(t, lock)
    /\ UNCHANGED <<lock, init>>

pl_ctoa_and(t) ==
    /\ pc[t] = "ctoa_and"
    /\ lock' = pl_and(lock, Not32(PLOCK32_SL_1))
    /\ Goto(t, "A")
    /\ UNCHANGED init

pl_atoj(t) ==
    /\ pc[t] = "A"
    /\ lock' = pl_add(lock, PLOCK32_RL_1)
    /\ Goto(t, "J")
    /\ UNCHANGED init

----------------------------------------------------------------------------
(* the system: threads calling the operations on one lock *)

NThreads == 3

NRW == 4

NExt == 2

NWriters == 4

NReaders == 4

NStow == 3

NUp == 4

NAtomic == 5

NOther == 4

(* the values the caller may have stored in bits 0-1 before the lock is used *)
Tag == {W32(0, g) : g \in 0..3}

InitOn(n, tags) ==
    /\ init \in tags
    /\ lock = init
    /\ pc = [t \in 1..n |-> "U"]

TryROps ==
    \/ \E t \in Threads : pl_try_r(t)
    \/ \E t \in Threads : pl_try_r_xadd(t)
    \/ \E t \in Threads : pl_try_r_sub(t)

TakeROps ==
    \/ \E t \in Threads : pl_take_r(t)
    \/ \E t \in Threads : pl_take_r_wait(t)
    \/ \E t \in Threads : pl_take_r_xadd(t)
    \/ \E t \in Threads : pl_take_r_sub(t)
    \/ \E t \in Threads : pl_drop_r(t)

SeekOps ==
    \/ \E t \in Threads : pl_try_s(t)
    \/ \E t \in Threads : pl_try_s_xadd(t)
    \/ \E t \in Threads : pl_try_s_sub(t)
    \/ \E t \in Threads : pl_take_s(t)
    \/ \E t \in Threads : pl_take_s_sub(t)
    \/ \E t \in Threads : pl_take_s_wait(t)
    \/ \E t \in Threads : pl_drop_s(t)
    \/ \E t \in Threads : pl_stor(t)
    \/ \E t \in Threads : pl_stow(t)
    \/ \E t \in Threads : pl_stow_wait(t)
    \/ \E t \in Threads : pl_wtos(t)
    \/ \E t \in Threads : pl_wtor(t)

TakeWOps ==
    \/ \E t \in Threads : pl_take_w(t)
    \/ \E t \in Threads : pl_take_w_sub(t)
    \/ \E t \in Threads : pl_take_w_wait(t)
    \/ \E t \in Threads : pl_take_w_drain(t)
    \/ \E t \in Threads : pl_drop_w(t)

TryWOps ==
    \/ \E t \in Threads : pl_try_w(t)
    \/ \E t \in Threads : pl_try_w_xadd(t)
    \/ \E t \in Threads : pl_try_w_sub(t)
    \/ \E t \in Threads : pl_try_w_drain(t)

UpgradeOps ==
    \/ \E t \in Threads : pl_try_rtos(t)
    \/ \E t \in Threads : pl_try_rtos_xadd(t)
    \/ \E t \in Threads : pl_try_rtos_sub(t)
    \/ \E t \in Threads : pl_try_rtow(t)
    \/ \E t \in Threads : pl_try_rtow_undo(t)
    \/ \E t \in Threads : pl_try_rtow_drain(t)

AtomicOps ==
    \/ \E t \in Threads : pl_try_a(t)
    \/ \E t \in Threads : pl_try_a_xadd(t)
    \/ \E t \in Threads : pl_try_a_wait(t)
    \/ \E t \in Threads : pl_try_a_sub(t)
    \/ \E t \in Threads : pl_take_a(t)
    \/ \E t \in Threads : pl_take_a_read(t)
    \/ \E t \in Threads : pl_take_a_sub(t)
    \/ \E t \in Threads : pl_take_a_wait(t)
    \/ \E t \in Threads : pl_drop_a(t)
    \/ \E t \in Threads : pl_ator(t)
    \/ \E t \in Threads : pl_ator_wait(t)
    \/ \E t \in Threads : pl_try_rtoa(t)
    \/ \E t \in Threads : pl_try_rtoa_xadd(t)
    \/ \E t \in Threads : pl_try_rtoa_wait(t)
    \/ \E t \in Threads : pl_try_rtoa_sub(t)

JoinOps ==
    \/ \E t \in Threads : pl_rtoj(t)
    \/ \E t \in Threads : pl_rtoj_wait(t)
    \/ \E t \in Threads : pl_jtoc(t)
    \/ \E t \in Threads : pl_jtoc_or(t)
    \/ \E t \in Threads : pl_rtoc(t)
    \/ \E t \in Threads : pl_rtoc_wait(t)
    \/ \E t \in Threads : pl_rtoc_or(t)
    \/ \E t \in Threads : pl_drop_c(t)
    \/ \E t \in Threads : pl_drop_c_and(t)
    \/ \E t \in Threads : pl_ctoa(t)
    \/ \E t \in Threads : pl_ctoa_wait(t)
    \/ \E t \in Threads : pl_ctoa_and(t)
    \/ \E t \in Threads : pl_atoj(t)

(* Spec: NThreads threads, each calling any core operation its held state
   allows, on a lock whose bits 0-1 hold any value *)
Init == InitOn(NThreads, Tag)

Next ==
    \/ TryROps \/ TakeROps \/ SeekOps \/ TakeWOps \/ TryWOps \/ UpgradeOps
    \/ AtomicOps

Spec == Init /\ [][Next]_vars

(* SpecRW: NRW threads running pl_take_r ... pl_drop_r and
   pl_take_w ... pl_drop_w on a zeroed lock (tests/rwrace.c) *)
InitRW == InitOn(NRW, {Zero32})

NextRW == TakeROps \/ TakeWOps

SpecRW == InitRW /\ [][NextRW]_vars

(* SpecExt: the core operations and the R -> J -> C -> A path *)
InitExt == InitOn(NExt, Tag)

NextExt == Next \/ JoinOps

SpecExt == InitExt /\ [][NextExt]_vars

(* SpecWLoop: NWriters threads, each looping pl_take_w; pl_drop_w on a zeroed
   lock, every thread being scheduled again and again.  With writers only,
   a fetch-add that finds no W and no S bit finds the word 0, so the loop
   that waits for the readers (pl_take_w_drain) is part of each thread's code
   but is never entered. *)
InitWLoop == InitOn(NWriters, {Zero32})

WriterStep(t) ==
    \/ pl_take_w(t)
    \/ pl_take_w_sub(t)
    \/ pl_take_w_wait(t)
    \/ pl_take_w_drain(t)
    \/ pl_drop_w(t)

NextWLoop == \E t \in Threads : WriterStep(t)

FairWLoop == \A t \in 1..NWriters : WF_vars(WriterStep(t))

SpecWLoop == InitWLoop /\ [][NextWLoop]_vars /\ FairWLoop

(* SpecBlocked: thread 1 holds W, obtained on a zeroed lock; each of the
   NReaders other threads loops pl_take_r; pl_drop_r and is either between
   two calls or past the first test of pl_take_r, which it made before the
   writer came; no other writer comes *)
Writer == 1

Readers == 2..(NReaders + 1)

InitBlocked ==
    /\ init = Zero32
    /\ lock = WSR_1
    /\ pc \in [{Writer} \cup Readers -> {"U", "W", "take_r_xadd"}]
    /\ pc[Writer] = "W"
    /\ \A t \in Readers : pc[t] # "W"

ReaderStep(t) ==
    \/ pl_take_r(t)
    \/ pl_take_r_wait(t)
    \/ pl_take_r_xadd(t)
    \/ pl_take_r_sub(t)
    \/ pl_drop_r(t)

NextBlocked ==
    \/ \E t \in Readers : pl_take_r(t)
    \/ \E t \in Readers : pl_take_r_wait(t)
    \/ \E t \in Readers : pl_take_r_xadd(t)
    \/ \E t \in Readers : pl_take_r_sub(t)
    \/ \E t \in Readers : pl_drop_r(t)
    \/ pl_drop_w(Writer)

FairBlocked ==
    /\ WF_vars(pl_drop_w(Writer))
    /\ \A t \in Readers : WF_vars(ReaderStep(t))

SpecBlocked == InitBlocked /\ [][NextBlocked]_vars /\ FairBlocked

(* the states a thread holds between two calls; any other value of pc[t] is
   a position inside a call *)
Held == {"U", "R", "S", "W", "SW", "A", "J", "C"}

Busy(t) == pc[t] \notin Held

(* any step of thread t in a core operation *)
CoreStep(t) ==
    \/ pl_try_r(t) \/ pl_try_r_xadd(t) \/ pl_try_r_sub(t)
    \/ pl_take_r(t) \/ pl_take_r_wait(t) \/ pl_take_r_xadd(t)
    \/ pl_take_r_sub(t) \/ pl_drop_r(t)
    \/ pl_try_s(t) \/ pl_try_s_xadd(t) \/ pl_try_s_sub(t)
    \/ pl_take_s(t) \/ pl_take_s_sub(t) \/ pl_take_s_wait(t)
    \/ pl_drop_s(t) \/ pl_stor(t) \/ pl_stow(t) \/ pl_stow_wait(t)
    \/ pl_wtos(t) \/ pl_wtor(t)
    \/ pl_take_w(t) \/ pl_take_w_sub(t) \/ pl_take_w_wait(t)
    \/ pl_take_w_drain(t) \/ pl_drop_w(t)
    \/ pl_try_w(t) \/ pl_try_w_xadd(t) \/ pl_try_w_sub(t) \/ pl_try_w_drain(t)
    \/ pl_try_rtos(t) \/ pl_try_rtos_xadd(t) \/ pl_try_rtos_sub(t)
    \/ pl_try_rtow(t) \/ pl_try_rtow_undo(t) \/ pl_try_rtow_drain(t)
    \/ pl_try_a(t) \/ pl_try_a_xadd(t) \/ pl_try_a_wait(t) \/ pl_try_a_sub(t)
    \/ pl_take_a(t) \/ pl_take_a_read(t) \/ pl_take_a_sub(t)
    \/ pl_take_a_wait(t) \/ pl_drop_a(t)
    \/ pl_ator(t) \/ pl_ator_wait(t)
    \/ pl_try_rtoa(t) \/ pl_try_rtoa_xadd(t) \/ pl_try_rtoa_wait(t)
    \/ pl_try_rtoa_sub(t)

(* SpecStow: NStow threads calling any core operation on a zeroed lock.  A
   thread inside a call keeps being scheduled (weak fairness on the steps of
   a call in progress); a thread that holds R ends up calling pl_drop_r, even
   if it first tries upgrades that fail (strong fairness on pl_drop_r).
   Nothing forces a thread to start any other call. *)
InitStow == InitOn(NStow, {Zero32})

FairStow ==
    \A t \in 1..NStow :
        /\ WF_vars(Busy(t) /\ CoreStep(t))
        /\ SF_vars(pl_drop_r(t))

SpecStow == InitStow /\ [][Next]_vars /\ FairStow

(* SpecRtos: NUp threads hold R on a lock that was zeroed; each may call
   pl_try_rtos, and pl_drop_r while it holds R; a thread that got S keeps it *)
InitRtos ==
    /\ init = Zero32
    /\ lock = W32(0, NUp * PLOCK32_RL_1.lo)
    /\ pc = [t \in 1..NUp |-> "R"]

NextRtos ==
    \/ \E t \in Threads : pl_try_rtos(t)
    \/ \E t \in Threads : pl_try_rtos_xadd(t)
    \/ \E t \in Threads : pl_try_rtos_sub(t)
    \/ \E t \in Threads : pl_drop_r(t)

SpecRtos == InitRtos /\ [][NextRtos]_vars

(* SpecShare: NReaders threads looping pl_take_r; pl_drop_r on a lock that
   was zeroed and that thread 1 either leaves alone or holds in S, without
   calling pl_stow; it may drop S.  pl_take_r moves to its wait loop, and
   its fetch-add to the back-out, when they find a W bit: the steps of the
   wait loop and of the back-out are left out of NextShare because C14
   shows that no reader gets there. *)
Seeker == 1

InitShare ==
    /\ init = Zero32
    /\ pc \in [{Seeker} \cup Readers -> {"U", "S"}]
    /\ \A t \in Readers : pc[t] = "U"
    /\ lock = (IF pc[Seeker] = "S" THEN SR_1 ELSE Zero32)

NextShare ==
    \/ \E t \in Readers : pl_take_r(t)
    \/ \E t \in Readers : pl_take_r_xadd(t)
    \/ \E t \in Readers : pl_drop_r(t)
    \/ pl_drop_s(Seeker)

SpecShare == InitShare /\ [][NextShare]_vars

(* SpecAShare: NAtomic threads, each looping pl_take_a or pl_try_a, then
   pl_drop_a, on a zeroed lock.  The steps these calls take after finding an
   R or S bit are left out of NextAShare because C15 shows that no thread
   gets there. *)
InitAShare == InitOn(NAtomic, {Zero32})

NextAShare ==
    \/ \E t \in Threads : pl_take_a(t)
    \/ \E t \in Threads : pl_try_a(t)
    \/ \E t \in Threads : pl_try_a_xadd(t)
    \/ \E t \in Threads : pl_drop_a(t)

SpecAShare == InitAShare /\ [][NextAShare]_vars

(* SpecDrain: thread 1 and NReaders other threads hold R on a lock that was
   zeroed; thread 1 calls pl_try_rtoa, and pl_drop_a once it holds A; the
   others loop pl_drop_r; pl_take_r.  Every thread keeps being scheduled.
   No S bit is ever set, so the back-out of pl_try_rtoa is left out of
   NextDrain: C16 shows that thread 1 does not get there. *)
Upgrader == 1

InitDrain ==
    /\ init = Zero32
    /\ lock = W32(0, (NReaders + 1) * PLOCK32_RL_1.lo)
    /\ pc = [t \in {Upgrader} \cup Readers |-> "R"]

UpgraderStep ==
    \/ pl_try_rtoa(Upgrader)
    \/ pl_try_rtoa_xadd(Upgrader)
    \/ pl_try_rtoa_wait(Upgrader)

NextDrain ==
    \/ pl_try_rtoa(Upgrader)
    \/ pl_try_rtoa_xadd(Upgrader)
    \/ pl_try_rtoa_wait(Upgrader)
    \/ pl_drop_a(Upgrader)
    \/ \E t \in Readers : pl_take_r(t)
    \/ \E t \in Readers : pl_take_r_wait(t)
    \/ \E t \in Readers : pl_take_r_xadd(t)
    \/ \E t \in Readers : pl_take_r_sub(t)
    \/ \E t \in Readers : pl_drop_r(t)

FairDrain ==
    /\ WF_vars(UpgraderStep)
    /\ \A t \in Readers : WF_vars(ReaderStep(t))

SpecDrain == InitDrain /\ [][NextDrain]_vars /\ FairDrain

(* SpecRound: one thread calling take, transition and drop operations on a
   word that starts with any value in bits 0-1 and with the R1 of up to
   NOther readers, which stay.  No W or S bit is ever set by another thread,
   so the steps that follow a refusal are left out of NextRound; a call that
   has to wait for the readers, or that never sees the word it expects,
   stays in its loop. *)
StartWords == {W32(0, g + k * PLOCK32_RL_1.lo) : g \in 0..3, k \in 0..NOther}

InitRound == InitOn(1, StartWords)

NextRound ==
    \/ \E t \in Threads : pl_take_r(t)
    \/ \E t \in Threads : pl_take_r_xadd(t)
    \/ \E t \in Threads : pl_drop_r(t)
    \/ \E t \in Threads : pl_take_s(t)
    \/ \E t \in Threads : pl_drop_s(t)
    \/ \E t \in Threads : pl_stor(t)
    \/ \E t \in Threads : pl_stow(t)
    \/ \E t \in Threads : pl_stow_wait(t)
    \/ \E t \in Threads : pl_wtos(t)
    \/ \E t \in Threads : pl_wtor(t)
    \/ \E t \in Threads : pl_take_w(t)
    \/ \E t \in Threads : pl_take_w_drain(t)
    \/ \E t \in Threads : pl_drop_w(t)
    \/ \E t \in Threads : pl_take_a(t)
    \/ \E t \in Threads : pl_take_a_read(t)
    \/ \E t \in Threads : pl_drop_a(t)

SpecRound == InitRound /\ [][NextRound]_vars

----------------------------------------------------------------------------
(* what the threads hold *)

HoldsR(t) == pc[t] = "R"

HoldsS(t) == pc[t] = "S"

(* W, obtained by pl_take_w, pl_try_w, pl_try_rtow ("W") or pl_stow ("SW") *)
HoldsW(t) == pc[t] \in {"W", "SW"}

HoldsA(t) == pc[t] = "A"

(* every other thread is between two calls and holds nothing *)
Alone(t) == \A u \in Threads \ {t} : pc[u] = "U"

(* C1: no thread is inside a read section (pl_take_r returned, pl_drop_r not
   yet called) while another is inside a write section (pl_take_w returned,
   pl_drop_w not yet called). *)
C1_ReadWriteExclusion ==
    \A t, u \in Threads : ~(HoldsR(t) /\ HoldsW(u))

(* a writer holds W while a reader that had passed its first test is about
   to take its addition back *)
C1_Witness ==
    \E t, u \in Threads : pc[t] = "W" /\ pc[u] = "take_r_sub"

(* C2: at most one thread at a time holds W, however it was obtained. *)
C2_OneWriter ==
    Cardinality({t \in Threads : HoldsW(t)}) <= 1

(* one thread holds W reached through pl_stow while another one, whose
   pl_take_w, pl_try_w or pl_try_rtow was refused, has not backed out yet *)
C2_Witness ==
    \E t, u \in Threads :
        /\ pc[t] = "SW"
        /\ pc[u] \in {"take_w_sub", "try_w_sub", "try_rtow_undo"}

(* a thread that has been granted S, or W (which includes S): its fetch-add
   found no W and no S bit, and it has not released S since *)
GrantedS(t) ==
    pc[t] \in {"S", "stow_wait", "SW", "W",
               "take_w_drain", "try_w_drain", "try_rtow_drain"}

(* C3: at most one thread at a time has been granted S (or W), among any
   concurrent pl_take_s, pl_try_s, pl_try_rtos, pl_take_w, pl_try_w and
   pl_try_rtow. *)
C3_SingleSeeker ==
    Cardinality({t \in Threads : GrantedS(t)}) <= 1

(* a seeker holds S while the additions of two refused attempts are still in
   the word *)
C3_Witness ==
    \E t, u, v \in Threads :
        /\ pc[t] = "S"
        /\ pc[u] \in {"take_s_sub", "try_s_sub", "try_rtos_sub"}
        /\ pc[v] \in {"take_w_sub", "try_w_sub", "try_rtow_undo"}

(* C4: from the return of pl_stow to the caller's pl_wtos, pl_wtor or
   pl_drop_w, no other thread holds R or S. *)
C4_StowExcludesReaders ==
    \A t, u \in Threads :
        (pc[t] = "SW" /\ u # t) => ~(HoldsR(u) \/ HoldsS(u))

(* C5: while a thread holds A, no other thread holds R, S or W. *)
C5_AtomicExcludesOthers ==
    \A t, u \in Threads :
        (HoldsA(t) /\ u # t) => ~(HoldsR(u) \/ HoldsS(u) \/ HoldsW(u))

(* what a thread at a given position has added to the lock word and not yet
   taken back *)
Contribution(l) ==
    CASE l \in {"R", "take_r_sub", "try_r_sub", "try_rtos_xadd",
                "try_rtow_top", "try_rtoa_xadd", "ator_wait"}
             -> PLOCK32_RL_1
      [] l \in {"S", "take_s_sub", "try_s_sub", "try_rtos_sub"}
             -> Add32(PLOCK32_SL_1, PLOCK32_RL_1)
      [] l \in {"W", "SW", "stow_wait", "take_w_sub", "take_w_drain",
                "try_w_sub", "try_w_drain", "try_rtow_undo", "try_rtow_drain"}
             -> Add32(PLOCK32_WL_1, Add32(PLOCK32_SL_1, PLOCK32_RL_1))
      [] l \in {"A", "try_a_wait", "try_a_sub", "take_a_read", "take_a_sub",
                "try_rtoa_wait", "try_rtoa_sub"}
             -> PLOCK32_WL_1
      [] OTHER -> Zero32

RECURSIVE SumContributions(_)
SumContributions(n) ==
    IF n = 0 THEN Zero32
    ELSE Add32(Contribution(pc[n]), SumContributions(n - 1))

(* C6: the lock word is its initial value plus the contributions of the
   holds and of the additions not yet backed out; when every thread is
   between two calls and holds nothing, it is its initial value. *)
C6_BalancedCounts ==
    /\ lock = Add32(init, SumContributions(Cardinality(Threads)))
    /\ (\A t \in Threads : pc[t] = "U") => lock = init

(* a seeker holds S, a reader holds R and a refused pl_take_w has not backed
   out yet *)
C6_Witness ==
    \E t, u, v \in Threads :
        pc[t] = "S" /\ pc[u] = "R" /\ pc[v] = "take_w_sub"

(* C7: the outcome of an operation does not depend on bits 0-1: a
   pl_take_w, pl_try_w or pl_try_rtow that was granted W and waits for the
   readers to leave ends its wait at its next read of the word once every
   other thread has left, whatever bits 0-1 hold. *)
C7_TagIgnored ==
    \A t \in Threads :
        (pc[t] \in {"take_w_drain", "try_w_drain", "try_rtow_drain"} /\ Alone(t))
            => WDrained(lock)

(* bits 0-1 of the word *)
TagBits(v) == And32(v, W32(0, 3))

(* C8: no operation changes bits 0-1 of the lock word. *)
C8_TagPreserved == TagBits(lock) = init

(* bits 0-1 are both set, a thread has set the S bit with pl_or and holds C,
   and a refused pl_take_s has not backed out yet *)
C8_Witness ==
    /\ init = W32(0, 3)
    /\ \E t, u \in Threads : pc[t] = "C" /\ pc[u] = "take_s_sub"

(* C9: with every thread looping pl_take_w; pl_drop_w under fair scheduling,
   write sections keep being completed: there is always a later pl_drop_w. *)
C9_WritersProgress ==
    []<><<\E t \in 1..NWriters : pl_drop_w(t)>>_vars

(* one thread holds W while the others have been refused: one has not backed
   out yet, the other waits *)
C9_Witness ==
    \E t, u, v \in Threads :
        pc[t] = "W" /\ pc[u] = "take_w_sub" /\ pc[v] = "take_w_wait"

(* a reader inside pl_take_r *)
InTakeR(t) ==
    pc[t] \in {"take_r_wait", "take_r_xadd", "take_r_sub", "take_r_top"}

(* C10: no pl_take_r returns while the writer holds W; every pl_take_r in
   progress returns once the writer has dropped W; when the writer is gone
   and the NReaders readers are all in, the word is NReaders * R1; when
   every thread has dropped, the word is 0. *)
C10_WriterBlocksReaders ==
    /\ [](pc[Writer] = "W" => \A t \in Readers : ~HoldsR(t))
    /\ \A t \in Readers : InTakeR(t) ~> HoldsR(t)
    /\ []((pc[Writer] = "U" /\ \A t \in Readers : HoldsR(t))
              => lock = W32(0, NReaders * PLOCK32_RL_1.lo))
    /\ []((\A t \in Threads : pc[t] = "U") => lock = Zero32)

(* the writer holds W and every reader is blocked in the wait loop of
   pl_take_r *)
C10_Witness ==
    /\ pc[Writer] = "W"
    /\ \A t \in Readers : pc[t] = "take_r_wait"

(* C11: under fair scheduling, with every holder of R ending up calling
   pl_drop_r, a pl_stow that has added W1 and waits for the readers returns. *)
C11_StowReturns ==
    \A t \in 1..NStow : (pc[t] = "stow_wait") ~> (pc[t] = "SW")

(* C12: among threads that hold R and call pl_try_rtos concurrently at most
   one is granted S; the word is at all times what the holds and the
   additions not yet backed out add up to, so a caller that was refused
   holds exactly its R1, and once the refused callers have dropped R the
   word holds the contribution of the one S holder only. *)
C12_RtosRace ==
    /\ Cardinality({t \in Threads : HoldsS(t)}) <= 1
    /\ lock = SumContributions(Cardinality(Threads))
    /\ (\A t \in Threads : pc[t] \in {"S", "U"})
          => lock \in {Zero32, Add32(PLOCK32_SL_1, PLOCK32_RL_1)}

(* one caller was granted S; another, which had passed its first test, was
   refused by its fetch-add and has not backed out yet *)
C12_Witness ==
    \E t, u \in Threads : pc[t] = "S" /\ pc[u] = "try_rtos_sub"

(* what the threads other than t have added to the word *)
RECURSIVE OthersContributions(_, _)
OthersContributions(t, n) ==
    IF n = 0 THEN Zero32
    ELSE Add32(IF n = t THEN Zero32 ELSE Contribution(pc[n]),
               OthersContributions(t, n - 1))

(* the step by which a pl_try_r, pl_try_s, pl_try_w or pl_try_a returns
   failure after its fetch-add *)
FailedTryReturns(t) ==
    pl_try_r_sub(t) \/ pl_try_s_sub(t) \/ pl_try_w_sub(t) \/ pl_try_a_sub(t)

(* the step by which a pl_try_rtos, pl_try_rtow or pl_try_rtoa returns
   failure after its fetch-add *)
FailedUpgradeReturns(t) ==
    \/ pl_try_rtos_sub(t)
    \/ pl_try_rtoa_sub(t)
    \/ pl_try_rtow_undo(t) /\ pc'[t] = "R"

(* C13: when a pl_try_r, pl_try_s, pl_try_w or pl_try_a returns failure the
   word holds nothing of the caller; when a pl_try_rtos, pl_try_rtow or
   pl_try_rtoa returns failure it holds the caller's R1 and nothing else of
   it; and pl_try_r, pl_try_s, pl_try_w and pl_try_rtos go on to their
   fetch-add only when their first read showed no conflicting bit. *)
C13_FailedTryNoTrace ==
    [][\A t \in Threads :
        /\ FailedTryReturns(t) =>
              /\ pc'[t] = "U"
              /\ lock' = Add32(init, OthersContributions(t, Cardinality(Threads)))
        /\ FailedUpgradeReturns(t) =>
              lock' = Add32(Add32(init, PLOCK32_RL_1),
                            OthersContributions(t, Cardinality(Threads)))
        /\ pc'[t] = "try_r_xadd" /\ pc[t] # "try_r_xadd"
              => ~Bits(lock, PLOCK32_WL_ANY) /\ lock' = lock
        /\ pc'[t] \in {"try_s_xadd", "try_w_xadd", "try_rtos_xadd"} /\ pc[t] # pc'[t]
              => ~Bits(lock, WS_ANY) /\ lock' = lock
        /\ (pl_try_r(t) \/ pl_try_s(t) \/ pl_try_w(t) \/ pl_try_rtos(t))
              => lock' = lock
      ]_vars

(* a pl_try_a and a pl_try_rtow were both refused by their fetch-add and are
   about to take it back *)
C13_Witness ==
    \E t, u \in Threads : pc[t] = "try_a_sub" /\ pc[u] = "try_rtow_undo"

(* C14: on a lock with no W bit set, whether unlocked, held by readers or
   held by a seeker in S, no pl_take_r enters its wait loop or backs out;
   with the NReaders readers in and no other holder the word is
   NReaders * R1; after their pl_drop_r it is 0. *)
C14_ReadersShare ==
    /\ \A t \in Readers : pc[t] \in {"U", "take_r_xadd", "R"}
    /\ (pc[Seeker] = "U" /\ \A t \in Readers : HoldsR(t))
          => lock = W32(0, NReaders * PLOCK32_RL_1.lo)
    /\ (\A t \in Threads : pc[t] = "U") => lock = Zero32

(* every reader is in while the seeker holds S *)
C14_Witness ==
    /\ pc[Seeker] = "S"
    /\ \A t \in Readers : HoldsR(t)

(* C15: threads taking A on an unlocked word never wait for each other: none
   enters a wait loop or backs out, and the word is W1 times the number of
   threads that hold A. *)
C15_AtomicShare ==
    /\ \A t \in Threads : pc[t] \in {"U", "try_a_xadd", "A"}
    /\ lock = W32(PLOCK32_WL_1.hi * Cardinality({t \in Threads : HoldsA(t)}), 0)

(* every thread holds A *)
C15_Witness ==
    /\ \A t \in Threads : HoldsA(t)
    /\ lock = W32(PLOCK32_WL_1.hi * NAtomic, 0)

(* C16: a pl_try_rtoa called while other threads hold R and no S bit is set
   does not return while one of them still holds R; it never backs out; it
   returns success once they have dropped R; the word is then W1 (as soon as
   no refused pl_take_r has its addition left in the word). *)
C16_RtoaDrain ==
    /\ [](HoldsA(Upgrader) => \A t \in Readers : ~HoldsR(t))
    /\ [](pc[Upgrader] # "try_rtoa_sub")
    /\ (pc[Upgrader] \in {"try_rtoa_xadd", "try_rtoa_wait"}) ~> HoldsA(Upgrader)
    /\ []((HoldsA(Upgrader) /\ \A t \in Readers : pc[t] # "take_r_sub")
             => lock = PLOCK32_WL_1)

(* pl_try_rtoa has done its fetch-add and waits while every other thread
   still holds R *)
C16_Witness ==
    /\ pc[Upgrader] = "try_rtoa_wait"
    /\ \A t \in Readers : HoldsR(t)

(* C17: whatever sequence of take, transition and drop operations a thread
   runs alone, among them take_r; drop_r, take_s; stow; wtos; drop_s,
   take_s; stow; drop_w, take_w; drop_w, take_a; drop_a, take_w; wtor; drop_r
   and take_s; stor; drop_r, the word is back to its starting value when the
   thread holds nothing again, and while it holds R, S, W or A the word is
   the starting value plus R1, S1+R1, W1+S1+R1 or W1. *)
C17_RoundTrips ==
    \A t \in Threads :
        /\ pc[t] = "U" => lock = init
        /\ pc[t] \in Held => lock = Add32(init, Contribution(pc[t]))

(* the thread holds W after take_s; stow on a word whose bits 0-1 are set *)
C17_Witness ==
    \E t \in Threads : pc[t] = "SW" /\ init = W32(0, 3)

(* ------------------------------------------------------------------ *)
(* The J/C/A path next to seekers and writers: the first NJoin threads
   take R and go R -> J -> C, or R -> C directly, and leave through
   pl_drop_c or through pl_ctoa and pl_drop_a; the NAttempt other threads
   call pl_take_s, pl_try_s and pl_take_w, and drop what they were granted. *)
NJoin == 2

NAttempt == 1

Joiners == 1..NJoin

Attempters == (NJoin + 1)..(NJoin + NAttempt)

InitJoin == InitOn(NJoin + NAttempt, {Zero32})

JoinerStep(t) ==
    \/ pl_take_r(t)
    \/ pl_take_r_wait(t)
    \/ pl_take_r_xadd(t)
    \/ pl_take_r_sub(t)
    \/ pl_rtoj(t)
    \/ pl_rtoj_wait(t)
    \/ pl_jtoc(t)
    \/ pl_jtoc_or(t)
    \/ pl_rtoc(t)
    \/ pl_rtoc_wait(t)
    \/ pl_rtoc_or(t)
    \/ pl_drop_c(t)
    \/ pl_drop_c_and(t)
    \/ pl_ctoa(t)
    \/ pl_ctoa_wait(t)
    \/ pl_ctoa_and(t)
    \/ pl_drop_a(t)

AttempterStep(t) ==
    \/ pl_take_s(t)
    \/ pl_take_s_sub(t)
    \/ pl_take_s_wait(t)
    \/ pl_try_s(t)
    \/ pl_try_s_xadd(t)
    \/ pl_try_s_sub(t)
    \/ pl_drop_s(t)
    \/ pl_take_w(t)
    \/ pl_take_w_sub(t)
    \/ pl_take_w_wait(t)
    \/ pl_take_w_drain(t)
    \/ pl_drop_w(t)

NextJoin ==
    \/ \E t \in Joiners : JoinerStep(t)
    \/ \E t \in Attempters : AttempterStep(t)

SpecJoin == InitJoin /\ [][NextJoin]_vars

(* the thread holds nothing and no addition of its own is in the word: it
   is outside every call, or inside a pl_take_* that has backed out and
   waits before its next attempt *)
Quiet(t) ==
    pc[t] \in {"U", "take_r_wait", "take_r_xadd", "take_r_top",
               "take_s_wait", "take_s_top", "take_w_wait", "take_w_top"}

(* C18: along the J/C/A path with concurrent pl_take_s, pl_try_s and
   pl_take_w, in every state where no thread holds the lock and every
   refused attempt has backed out its addition, the word equals its
   starting value, so its S bits are clear. *)
C18_JoinPathRestores ==
    (\A t \in Threads : Quiet(t)) => lock = init

(* ------------------------------------------------------------------ *)
(* J taken directly: pl_try_j, pl_take_j, pl_drop_j *)

(* one turn of the loop of pl_try_j on the value v just obtained *)
AfterTryJ(t, v) ==
    IF ~Bits(v, PLOCK32_RL_2PL) THEN Goto(t, "J")
    ELSE IF Bits(v, PLOCK32_WL_2PL) THEN Goto(t, "try_j_sub")
    ELSE Goto(t, "try_j_read")

pl_try_j(t) ==
    /\ pc[t] = "U"
    /\ IF Bits(lock, PLOCK32_WL_ANY) THEN Goto(t, "try_j_wait")
                                     ELSE Goto(t, "try_j_xadd")
    /\ UNCHANGED <<lock, init>>

pl_try_j_wait(t) ==
    /\ pc[t] = "try_j_wait"
    /\ pl_wait_unlock_int(t, PLOCK32_WL_ANY, "try_j_xadd")

pl_try_j_xadd(t) ==
    /\ pc[t] = "try_j_xadd"
    /\ lock' = pl_xadd(lock, Or32(PLOCK32_WL_1, PLOCK32_RL_1))
    /\ AfterTryJ(t, lock')
    /\ UNCHANGED init

pl_try_j_read(t) ==
    /\ pc[t] = "try_j_read"
    /\ AfterTryJ(t, lock)
    /\ UNCHANGED <<lock, init>>

pl_try_j_sub(t) ==
    /\ pc[t] = "try_j_sub"
    /\ lock' = pl_sub(lock, Or32(PLOCK32_WL_1, PLOCK32_RL_1))
    /\ Goto(t, "U")
    /\ UNCHANGED init

(* one turn of the loop of pl_take_j on the value v just obtained *)
AfterTakeJ(t, v) ==
    IF ~Bits(v, PLOCK32_RL_2PL) THEN Goto(t, "J")
    ELSE IF Bits(v, PLOCK32_WL_2PL) THEN Goto(t, "take_j_sub")
    ELSE Goto(t, "take_j_read")

pl_take_j(t) ==
    /\ pc[t] \in {"U", "take_j_top"}
    /\ IF Bits(lock, PLOCK32_WL_ANY) THEN Goto(t, "take_j_wait")
                                     ELSE Goto(t, "take_j_xadd")
    /\ UNCHANGED <<lock, init>>

pl_take_j_wait(t) ==
    /\ pc[t] = "take_j_wait"
    /\ pl_wait_unlock_int(t, PLOCK32_WL_ANY, "take_j_xadd")

pl_take_j_xadd(t) ==
    /\ pc[t] = "take_j_xadd"
    /\ lock' = pl_xadd(lock, Or32(PLOCK32_WL_1, PLOCK32_RL_1))
    /\ AfterTakeJ(t, lock')
    /\ UNCHANGED init

pl_take_j_read(t) ==
    /\ pc[t] = "take_j_read"
    /\ AfterTakeJ(t, lock)
    /\ UNCHANGED <<lock, init>>

pl_take_j_sub(t) ==
    /\ pc[t] = "take_j_sub"
    /\ lock' = pl_sub(lock, Or32(PLOCK32_WL_1, PLOCK32_RL_1))
    /\ Goto(t, "take_j_top")
    /\ UNCHANGED init

pl_drop_j(t) ==
    /\ pc[t] = "J"
    /\ lock' = pl_sub(lock, Or32(PLOCK32_WL_1, PLOCK32_RL_1))
    /\ Goto(t, "U")
    /\ UNCHANGED init

TakeJOps ==
    \/ \E t \in Threads : pl_try_j(t)
    \/ \E t \in Threads : pl_try_j_wait(t)
    \/ \E t \in Threads : pl_try_j_xadd(t)
    \/ \E t \in Threads : pl_try_j_read(t)
    \/ \E t \in Threads : pl_try_j_sub(t)
    \/ \E t \in Threads : pl_take_j(t)
    \/ \E t \in Threads : pl_take_j_wait(t)
    \/ \E t \in Threads : pl_take_j_xadd(t)
    \/ \E t \in Threads : pl_take_j_read(t)
    \/ \E t \in Threads : pl_take_j_sub(t)
    \/ \E t \in Threads : pl_drop_j(t)

(* threads that take J directly next to threads that take R, S, W and A *)
NTakeJ == 3

InitTakeJ == InitOn(NTakeJ, {Zero32})

NextTakeJ ==
    \/ TakeJOps
    \/ \E t \in Threads : pl_take_r(t)
    \/ \E t \in Threads : pl_take_r_wait(t)
    \/ \E t \in Threads : pl_take_r_xadd(t)
    \/ \E t \in Threads : pl_take_r_sub(t)
    \/ \E t \in Threads : pl_drop_r(t)
    \/ \E t \in Threads : pl_take_s(t)
    \/ \E t \in Threads : pl_take_s_sub(t)
    \/ \E t \in Threads : pl_take_s_wait(t)
    \/ \E t \in Threads : pl_drop_s(t)
    \/ TakeWOps
    \/ \E t \in Threads : pl_take_a(t)
    \/ \E t \in Threads : pl_take_a_read(t)
    \/ \E t \in Threads : pl_take_a_sub(t)
    \/ \E t \in Threads : pl_take_a_wait(t)
    \/ \E t \in Threads : pl_drop_a(t)

SpecTakeJ == InitTakeJ /\ [][NextTakeJ]_vars

HoldsJ(t) == pc[t] = "J"

(* C19: while a thread holds J obtained from pl_take_j or pl_try_j, no
   other thread holds J, A, W, S or R, whether or not a pl_take_a of
   another thread ran concurrently with the acquisition. *)
C19_JoinExclusive ==
    \A t \in Threads :
        HoldsJ(t) => \A u \in Threads \ {t} :
                        /\ ~HoldsJ(u)
                        /\ ~HoldsA(u)
                        /\ ~HoldsW(u)
                        /\ ~HoldsS(u)
                        /\ ~HoldsR(u)

(* ------------------------------------------------------------------ *)
(* pl_last_writer, called by each holder of a W count right before its
   drop.  The position of a thread records what its call returned: "A_last"
   holds A and was told it is the last writer, "A_more" holds A and was told
   it is not; the same for J and C.  After its drop the thread is "elected"
   if it had been told it is the last writer and "passed" otherwise. *)

(* the 32-bit branch of pl_last_writer on the word v *)
pl_last_writer_int(v) == ~Bits(v, PLOCK32_WL_2PL)

pl_last_writer(t) ==
    /\ pc[t] \in {"A", "J", "C"}
    /\ LET last == pl_last_writer_int(lock)
       IN  Goto(t, CASE pc[t] = "A" -> IF last THEN "A_last" ELSE "A_more"
                     [] pc[t] = "J" -> IF last THEN "J_last" ELSE "J_more"
                     [] pc[t] = "C" -> IF last THEN "C_last" ELSE "C_more")
    /\ UNCHANGED <<lock, init>>

(* where the thread is once its drop is complete *)
Dropped(l) ==
    IF l \in {"A_last", "J_last", "C_last", "C_last_and"} THEN "elected"
                                                          ELSE "passed"

(* pl_drop_a of a thread that has called pl_last_writer *)
last_writer_drop_a(t) ==
    /\ pc[t] \in {"A_last", "A_more"}
    /\ lock' = pl_sub(lock, PLOCK32_WL_1)
    /\ Goto(t, Dropped(pc[t]))
    /\ UNCHANGED init

(* pl_drop_j of a thread that has called pl_last_writer *)
last_writer_drop_j(t) ==
    /\ pc[t] \in {"J_last", "J_more"}
    /\ lock' = pl_sub(lock, Or32(PLOCK32_WL_1, PLOCK32_RL_1))
    /\ Goto(t, Dropped(pc[t]))
    /\ UNCHANGED init

(* pl_drop_c of a thread that has called pl_last_writer *)
last_writer_drop_c(t) ==
    /\ pc[t] \in {"C_last", "C_more"}
    /\ lock' = pl_xadd(lock, Sub32(Neg32(PLOCK32_RL_1), PLOCK32_WL_1))
    /\ IF ~Bits(lock', PLOCK32_RL_ANY)
       THEN Goto(t, IF pc[t] = "C_last" THEN "C_last_and" ELSE "C_more_and")
       ELSE Goto(t, Dropped(pc[t]))
    /\ UNCHANGED init

last_writer_drop_c_and(t) ==
    /\ pc[t] \in {"C_last_and", "C_more_and"}
    /\ lock' = pl_and(lock, Not32(PLOCK32_SL_1))
    /\ Goto(t, Dropped(pc[t]))
    /\ UNCHANGED init

(* 2..NElect threads that all hold A, or all hold J, or all hold C *)
NElect == 4

InitElect ==
    /\ init = Zero32
    /\ \E n \in 2..NElect, l \in {"A", "J", "C"} :
          /\ pc = [t \in 1..n |-> l]
          /\ lock = CASE l = "A" -> W32(n * PLOCK32_WL_1.hi, 0)
                      [] l = "J" -> W32(n * PLOCK32_WL_1.hi,
                                        n * PLOCK32_RL_1.lo)
                      [] l = "C" -> W32(n * PLOCK32_WL_1.hi + PLOCK32_SL_1.hi,
                                        n * PLOCK32_RL_1.lo)

NextElect ==
    \/ \E t \in Threads : pl_last_writer(t)
    \/ \E t \in Threads : last_writer_drop_a(t)
    \/ \E t \in Threads : last_writer_drop_j(t)
    \/ \E t \in Threads : last_writer_drop_c(t)
    \/ \E t \in Threads : last_writer_drop_c_and(t)

SpecElect == InitElect /\ [][NextElect]_vars

Elected == {t \in Threads : pc[t] = "elected"}

(* C20: when every holder of a W count has called pl_last_writer and then
   its drop, exactly one of them was told it is the last writer. *)
C20_OneCommitter ==
    (\A t \in Threads : pc[t] \in {"elected", "passed"})
        => Cardinality(Elected) = 1

(* ------------------------------------------------------------------ *)
(* S overflow: the seeker holds S all along, NCrowd other threads call
   pl_take_s and pl_take_w, whose additions are refused and taken back,
   and one more thread calls pl_take_a, pl_try_a, and pl_take_r followed
   by pl_try_rtoa.  With the seeker's S1 and NCrowd additions present the
   2-bit S field has carried into W. *)
NCrowd == 3

Crowd == 2..(NCrowd + 1)

AtomicTaker == NCrowd + 2

NextOverflow ==
    \/ \E t \in Crowd : pl_take_s(t)
    \/ \E t \in Crowd : pl_take_s_sub(t)
    \/ \E t \in Crowd : pl_take_s_wait(t)
    \/ \E t \in Crowd : pl_take_w(t)
    \/ \E t \in Crowd : pl_take_w_sub(t)
    \/ \E t \in Crowd : pl_take_w_wait(t)
    \/ pl_take_a(AtomicTaker)
    \/ pl_take_a_read(AtomicTaker)
    \/ pl_take_a_sub(AtomicTaker)
    \/ pl_take_a_wait(AtomicTaker)
    \/ pl_try_a(AtomicTaker)
    \/ pl_try_a_xadd(AtomicTaker)
    \/ pl_try_a_wait(AtomicTaker)
    \/ pl_try_a_sub(AtomicTaker)
    \/ pl_take_r(AtomicTaker)
    \/ pl_take_r_wait(AtomicTaker)
    \/ pl_take_r_xadd(AtomicTaker)
    \/ pl_take_r_sub(AtomicTaker)
    \/ pl_drop_r(AtomicTaker)
    \/ pl_try_rtoa(AtomicTaker)
    \/ pl_try_rtoa_xadd(AtomicTaker)
    \/ pl_try_rtoa_wait(AtomicTaker)
    \/ pl_try_rtoa_sub(AtomicTaker)

InitOverflow ==
    /\ init = Zero32
    /\ lock = SR_1
    /\ pc = [t \in 1..AtomicTaker |-> IF t = Seeker THEN "S" ELSE "U"]

SpecOverflow == InitOverflow /\ [][NextOverflow]_vars

(* C21: while the seeker holds S and the additions of concurrent
   pl_take_s and pl_take_w calls overflow the S field into W, no other
   thread is granted S, W or A, the word is the sum of the additions
   present, and once every refused attempt has taken its addition back
   the word is the seeker's own S1 + R1 again. *)
C21_OverflowHeals ==
    /\ HoldsS(Seeker)
    /\ \A t \in Threads \ {Seeker} : ~HoldsS(t) /\ ~HoldsW(t) /\ ~HoldsA(t)
    /\ lock = SumContributions(AtomicTaker)
    /\ (\A t \in Threads \ {Seeker} : Contribution(pc[t]) = Zero32)
          => lock = SR_1

(* the S field has overflowed: the seeker holds S, every thread of the
   crowd has its addition in the word, the S bits read 0, and pl_take_a
   has added its W1 and waits *)
C21_Witness ==
    /\ HoldsS(Seeker)
    /\ \A t \in Crowd : pc[t] \in {"take_s_sub", "take_w_sub"}
    /\ ~Bits(lock, PLOCK32_SL_ANY)
    /\ pc[AtomicTaker] = "take_a_read"

(* ------------------------------------------------------------------ *)
(* Writers arriving at once: one more thread does the fetch-add of
   pl_take_w while the additions of all earlier ones are still in the
   word.  The first is granted W; each later one has seen W or S bits
   and has yet to take its addition back.  The threads are anonymous here:
   pc is the bag of their positions. *)
MaxWriters == 13108

InitArrivals ==
    /\ init = Zero32
    /\ lock = init
    /\ pc = EmptyBag

WriterArrives ==
    /\ BagCardinality(pc) < MaxWriters
    /\ lock' = pl_xadd(lock, WSR_1)
    /\ pc' = pc (+) SetToBag({IF Bits(lock, WS_ANY) THEN "take_w_sub" ELSE "W"})
    /\ UNCHANGED init

SpecArrivals == InitArrivals /\ [][WriterArrives]_vars

(* C22: with N additions of W1|S1|R1 present, 1 <= N <= 13108, the W and
   S bits of the word are not all zero, and with exactly 13108 of them the
   fields read W = 1, S = 0, R = 13108. *)
C22_WSNeverZero ==
    /\ BagCardinality(pc) >= 1 => Bits(lock, WS_ANY)
    /\ BagCardinality(pc) = 13108 =>
          /\ And32(lock, PLOCK32_WL_ANY) = PLOCK32_WL_1
          /\ ~Bits(lock, PLOCK32_SL_ANY)
          /\ And32(lock, PLOCK32_RL_ANY) = W32(0, 13108 * PLOCK32_RL_1.lo)

(* 13108 additions are present: one thread was granted W, the others were
   refused *)
C22_Witness ==
    /\ BagCardinality(pc) = 13108
    /\ CopiesIn("W", pc) = 1

(* ------------------------------------------------------------------ *)
(* the S and R fields of the word v, as numbers *)
SField(v) == And32(v, PLOCK32_SL_ANY).hi \div PLOCK32_SL_1.hi

RField(v) == And32(v, PLOCK32_RL_ANY).lo \div PLOCK32_RL_1.lo

(* C23: in every reachable state, the intermediate states of pl_rtoj,
   pl_rtoc, pl_jtoc, pl_ctoa and pl_drop_c included, the R field of the
   word is at least its S field. *)
C23_RAtLeastS == RField(lock) >= SField(lock)

(* ------------------------------------------------------------------ *)
(* The seeker goes U -> S -> W and back while the other threads call
   pl_take_r, pl_try_r and pl_take_s, and drop what they were granted. *)
NextStowRace ==
    \/ pl_take_s(Seeker)
    \/ pl_take_s_sub(Seeker)
    \/ pl_take_s_wait(Seeker)
    \/ pl_stow(Seeker)
    \/ pl_stow_wait(Seeker)
    \/ pl_wtos(Seeker)
    \/ pl_drop_w(Seeker)
    \/ pl_drop_s(Seeker)
    \/ \E t \in Readers : pl_take_r(t)
    \/ \E t \in Readers : pl_take_r_wait(t)
    \/ \E t \in Readers : pl_take_r_xadd(t)
    \/ \E t \in Readers : pl_take_r_sub(t)
    \/ \E t \in Readers : pl_try_r(t)
    \/ \E t \in Readers : pl_try_r_xadd(t)
    \/ \E t \in Readers : pl_try_r_sub(t)
    \/ \E t \in Readers : pl_drop_r(t)
    \/ \E t \in Readers : pl_take_s(t)
    \/ \E t \in Readers : pl_take_s_sub(t)
    \/ \E t \in Readers : pl_take_s_wait(t)
    \/ \E t \in Readers : pl_drop_s(t)

SpecStowRace == InitOn(NReaders + 1, {Zero32}) /\ [][NextStowRace]_vars

(* the threads other than t whose refused pl_take_r, pl_try_r or pl_take_s
   has its R1 in the word, between the fetch-add and the back-out *)
RefusedR(t) ==
    {u \in Threads \ {t} : pc[u] \in {"take_r_sub", "try_r_sub", "take_s_sub"}}

(* C24 as stated: while a thread is in W reached from S, the R field of
   the word is exactly R1, also while other threads call pl_take_r,
   pl_try_r or pl_take_s. *)
C24_StowExactR ==
    \A t \in Threads :
        pc[t] = "SW" => And32(lock, PLOCK32_RL_ANY) = PLOCK32_RL_1

(* C24 as amended: while a thread is in W reached from S no other thread
   holds R or S, and the R field of the word is the writer's own R1 plus
   one R1 for each other thread that is between the fetch-add and the
   back-out of a refused pl_take_r, pl_try_r or pl_take_s; it is exactly
   R1 when there is none. *)
C24_StowOwnR ==
    \A t \in Threads :
        pc[t] = "SW" =>
            /\ \A u \in Threads \ {t} : ~HoldsR(u) /\ ~HoldsS(u)
            /\ And32(lock, PLOCK32_RL_ANY)
                 = W32(0, (1 + Cardinality(RefusedR(t))) * PLOCK32_RL_1.lo)

(* the seeker is in W reached from S and a refused pl_take_r has yet to
   take its R1 back *)
C24_Witness ==
    /\ pc[Seeker] = "SW"
    /\ \E u \in Readers : pc[u] = "take_r_sub"

(* ------------------------------------------------------------------ *)
(* Atomic writers next to seekers and writers: every thread may call
   pl_take_a, pl_take_s, pl_try_s and pl_take_w, and drops what it was
   granted.  No thread takes R alone, so the loops that wait for readers
   to leave (pl_take_a_read, pl_take_w_drain) are never entered. *)
NextAtomicRace ==
    \/ \E t \in Threads : pl_take_a(t)
    \/ \E t \in Threads : pl_take_a_sub(t)
    \/ \E t \in Threads : pl_take_a_wait(t)
    \/ \E t \in Threads : pl_drop_a(t)
    \/ \E t \in Threads : pl_take_s(t)
    \/ \E t \in Threads : pl_take_s_sub(t)
    \/ \E t \in Threads : pl_take_s_wait(t)
    \/ \E t \in Threads : pl_try_s(t)
    \/ \E t \in Threads : pl_try_s_xadd(t)
    \/ \E t \in Threads : pl_try_s_sub(t)
    \/ \E t \in Threads : pl_drop_s(t)
    \/ \E t \in Threads : pl_take_w(t)
    \/ \E t \in Threads : pl_take_w_sub(t)
    \/ \E t \in Threads : pl_take_w_wait(t)
    \/ \E t \in Threads : pl_drop_w(t)

SpecAtomicRace == InitOn(NThreads, {Zero32}) /\ [][NextAtomicRace]_vars

(* C25 as stated: while any thread holds A the S bits of the word are
   zero, also while other threads call pl_take_s, pl_try_s or pl_take_w. *)
C25_NoSBitUnderA ==
    (\E t \in Threads : HoldsA(t)) => ~Bits(lock, PLOCK32_SL_ANY)

(* the threads whose refused pl_take_s, pl_try_s or pl_take_w has its S1
   in the word, between the fetch-add and the back-out *)
RefusedS ==
    {u \in Threads : pc[u] \in {"take_s_sub", "try_s_sub", "take_w_sub"}}

(* C25 as amended: while any thread holds A no thread holds S or W, and
   the S field of the word counts the refused pl_take_s, pl_try_s and
   pl_take_w calls that are between their fetch-add and their back-out;
   it is zero when there is none. *)
C25_SBitsAreAttempts ==
    (\E t \in Threads : HoldsA(t)) =>
        /\ \A u \in Threads : ~HoldsS(u) /\ ~HoldsW(u)
        /\ SField(lock) = Cardinality(RefusedS) % 4

(* a thread holds A and a refused pl_take_w has yet to take back its
   W1 + S1 + R1 *)
C25_Witness ==
    /\ \E t \in Threads : HoldsA(t)
    /\ \E u \in Threads : pc[u] = "take_w_sub"

(* ------------------------------------------------------------------ *)
(* X: direct exclusive access.  plock.h has no pl_take_x and pl_drop_x
   (treelock.c calls them); they are written here as the specification
   describes take_x and drop_x: fetch-add of W1|R1, back out, wait and
   retry if the previous value has a W or S bit, then wait until the R
   field reads R1; the drop subtracts W1 + R1. *)
XMustWait(v) == And32(v, PLOCK32_RL_ANY) # PLOCK32_RL_1

pl_take_x(t) ==
    /\ pc[t] \in {"U", "take_x_top"}
    /\ lock' = pl_xadd(lock, Or32(PLOCK32_WL_1, PLOCK32_RL_1))
    /\ IF Bits(lock, WS_ANY) THEN Goto(t, "take_x_sub")
       ELSE IF XMustWait(lock') THEN Goto(t, "take_x_drain")
       ELSE Goto(t, "X")
    /\ UNCHANGED init

pl_take_x_sub(t) ==
    /\ pc[t] = "take_x_sub"
    /\ lock' = pl_sub(lock, Or32(PLOCK32_WL_1, PLOCK32_RL_1))
    /\ Goto(t, "take_x_wait")
    /\ UNCHANGED init

pl_take_x_wait(t) ==
    /\ pc[t] = "take_x_wait"
    /\ pl_wait_unlock_int(t, WS_ANY, "take_x_top")

pl_take_x_drain(t) ==
    /\ pc[t] = "take_x_drain"
    /\ IF XMustWait(lock) THEN pc' = pc ELSE Goto(t, "X")
    /\ UNCHANGED <<lock, init>>

pl_drop_x(t) ==
    /\ pc[t] = "X"
    /\ lock' = pl_sub(lock, Add32(PLOCK32_WL_1, PLOCK32_RL_1))
    /\ Goto(t, "U")
    /\ UNCHANGED init

(* the writer calls take_x and drop_x; every other thread may call
   pl_take_r, pl_take_s and pl_take_a, and drops what it was granted *)
NextX ==
    \/ pl_take_x(Writer)
    \/ pl_take_x_sub(Writer)
    \/ pl_take_x_wait(Writer)
    \/ pl_take_x_drain(Writer)
    \/ pl_drop_x(Writer)
    \/ \E t \in Threads \ {Writer} : pl_take_r(t)
    \/ \E t \in Threads \ {Writer} : pl_take_r_wait(t)
    \/ \E t \in Threads \ {Writer} : pl_take_r_xadd(t)
    \/ \E t \in Threads \ {Writer} : pl_take_r_sub(t)
    \/ \E t \in Threads \ {Writer} : pl_drop_r(t)
    \/ \E t \in Threads \ {Writer} : pl_take_s(t)
    \/ \E t \in Threads \ {Writer} : pl_take_s_sub(t)
    \/ \E t \in Threads \ {Writer} : pl_take_s_wait(t)
    \/ \E t \in Threads \ {Writer} : pl_drop_s(t)
    \/ \E t \in Threads \ {Writer} : pl_take_a(t)
    \/ \E t \in Threads \ {Writer} : pl_take_a_read(t)
    \/ \E t \in Threads \ {Writer} : pl_take_a_sub(t)
    \/ \E t \in Threads \ {Writer} : pl_take_a_wait(t)
    \/ \E t \in Threads \ {Writer} : pl_drop_a(t)

SpecX == InitOn(NThreads, {Zero32}) /\ [][NextX]_vars

HoldsX(t) == pc[t] = "X"

(* C26 as stated: while a thread holds X the word equals W1 + R1, also
   while other threads attempt take_r, take_s or take_a. *)
C26_XWordExact ==
    \A t \in Threads :
        HoldsX(t) => lock = Add32(PLOCK32_WL_1, PLOCK32_RL_1)

(* C26 as amended: while a thread holds X no other thread holds R, S, A
   or X, and the word equals W1 + R1 plus the additions of the other
   threads' calls in progress: R1 of a refused pl_take_r and S1 + R1 of a
   refused pl_take_s until they take it back, W1 of a pl_take_a until it
   is granted or backs out; it is exactly W1 + R1 when none is in
   progress. *)
C26_XWordOwn ==
    \A t \in Threads :
        HoldsX(t) =>
            /\ \A u \in Threads \ {t} :
                   ~HoldsR(u) /\ ~HoldsS(u) /\ ~HoldsA(u) /\ ~HoldsX(u)
            /\ lock = Add32(Add32(PLOCK32_WL_1, PLOCK32_RL_1),
                            OthersContributions(t, NThreads))

(* a thread holds X and a pl_take_a of another thread has added its W1 and
   waits for the R field to read 0 *)
C26_Witness ==
    \E t, u \in Threads : HoldsX(t) /\ pc[u] = "take_a_read"

(* ------------------------------------------------------------------ *)
(* The backoff of pl_wait_unlock_long / pl_wait_unlock_int.  The writer
   holds W; the waiter is inside pl_wait_unlock_int with the mask
   PLOCK32_WL_ANY, and its position is a record: at ("wait" or "done"),
   the counter m, the numbers of pl_cpu_relax and sched_yield calls of
   its last turn of the outer loop, whether m had reached 16384 when
   that turn started, and whether the build defines
   _POSIX_PRIORITY_SCHEDULING. *)
Waiter == 2

(* m = ((m + (m >> 1)) | 2) & 0x7fff *)
NextBackoff(m) ==
    LET x == m + (m \div 2)
    IN  (IF (x \div 2) % 2 = 1 THEN x ELSE x + 2) % 32768

(* one turn of the outer loop: the optional sched_yield, the pl_cpu_relax
   loop, the read of the word and the update of m *)
pl_wait_unlock_turn(t, mask) ==
    /\ pc[t].at = "wait"
    /\ LET m      == pc[t].m
           yield  == pc[t].posix /\ m >= 16384
           loops  == IF yield THEN m - 8192 ELSE m
       IN  pc' = [pc EXCEPT ![t] =
                    [at      |-> IF Bits(lock, mask) THEN "wait" ELSE "done",
                     m       |-> IF Bits(lock, mask) THEN NextBackoff(m) ELSE m,
                     relaxed |-> loops,
                     yielded |-> IF yield THEN 1 ELSE 0,
                     capped  |-> pc[t].capped \/ m >= 16384,
                     posix   |-> pc[t].posix]]
    /\ UNCHANGED <<lock, init>>

InitBackoff ==
    /\ init = Zero32
    /\ lock = WSR_1
    /\ \E b \in BOOLEAN :
          pc = <<"W", [at |-> "wait", m |-> 0, relaxed |-> 0, yielded |-> 0,
                       capped |-> FALSE, posix |-> b]>>

NextWait ==
    \/ pl_wait_unlock_turn(Waiter, PLOCK32_WL_ANY)
    \/ pl_drop_w(Writer)

SpecBackoff == InitBackoff /\ [][NextWait]_vars

(* C27: between two consecutive reads of the word the waiter never
   executes more than 16384 pl_cpu_relax calls. *)
C27_BackoffCap == pc[Waiter].relaxed <= 16384

(* C28: the waiter calls sched_yield exactly once in every turn of the
   outer loop from the one where the counter has reached 16384 on, and
   never before. *)
C28_YieldOncePerTurn ==
    pc[Waiter].yielded = (IF pc[Waiter].capped THEN 1 ELSE 0)

(* ------------------------------------------------------------------ *)
(* pl_ator next to the other acquirers: every thread may call pl_take_a,
   then pl_ator or pl_drop_a, pl_drop_r, pl_take_w and pl_drop_w,
   pl_take_s followed by pl_stow or pl_drop_s. *)
AtorStep(t) ==
    \/ pl_take_a(t) \/ pl_take_a_read(t) \/ pl_take_a_sub(t)
    \/ pl_take_a_wait(t) \/ pl_drop_a(t)
    \/ pl_ator(t) \/ pl_ator_wait(t) \/ pl_drop_r(t)
    \/ pl_take_w(t) \/ pl_take_w_sub(t) \/ pl_take_w_wait(t)
    \/ pl_take_w_drain(t) \/ pl_drop_w(t)
    \/ pl_take_s(t) \/ pl_take_s_sub(t) \/ pl_take_s_wait(t)
    \/ pl_stow(t) \/ pl_stow_wait(t) \/ pl_drop_s(t)

NextAtor == \E t \in Threads : AtorStep(t)

(* every thread that is inside a call or holds the lock is scheduled and
   goes on: a call in progress takes its next step, a holder ends up
   dropping or converting what it holds *)
FairAtor == \A t \in 1..NThreads : WF_vars(pc[t] # "U" /\ AtorStep(t))

SpecAtor == InitOn(NThreads, {Zero32}) /\ [][NextAtor]_vars /\ FairAtor

(* C29: a pl_ator that has to wait for the other atomic writers returns. *)
C29_AtorReturns ==
    \A t \in 1..NThreads : (pc[t] = "ator_wait") ~> (pc[t] = "R")

(* ------------------------------------------------------------------ *)
(* Writer preference: thread 1 calls pl_take_w and pl_drop_w, NArrive other
   threads call pl_take_r, pl_try_r, pl_take_s and pl_take_a at any time
   and drop what they were granted.  The lock starts zeroed. *)
NArrive == 3

Arrivals == 2..(NArrive + 1)

ArrivalStep(t) ==
    \/ pl_take_r(t) \/ pl_take_r_wait(t) \/ pl_take_r_xadd(t)
    \/ pl_take_r_sub(t) \/ pl_drop_r(t)
    \/ pl_try_r(t) \/ pl_try_r_xadd(t) \/ pl_try_r_sub(t)
    \/ pl_take_s(t) \/ pl_take_s_sub(t) \/ pl_take_s_wait(t) \/ pl_drop_s(t)
    \/ pl_take_a(t) \/ pl_take_a_read(t) \/ pl_take_a_sub(t)
    \/ pl_take_a_wait(t) \/ pl_drop_a(t)

NextPref ==
    \/ WriterStep(Writer)
    \/ \E t \in Arrivals : ArrivalStep(t)

(* a thread inside a call takes its next step and a holder ends up dropping
   what it holds; nothing obliges an idle thread to start a call *)
FairPref ==
    /\ WF_vars(pc[Writer] # "U" /\ WriterStep(Writer))
    /\ \A t \in Arrivals : WF_vars(pc[t] # "U" /\ ArrivalStep(t))

SpecPref == InitOn(NArrive + 1, {Zero32}) /\ [][NextPref]_vars /\ FairPref

(* the writer's first fetch-add finds no W and no S bit *)
GrantedAtFirst ==
    (pc[Writer] = "U" /\ pc'[Writer] # "U" /\ ~Bits(lock, WS_ANY))
        => pc'[Writer] \in {"take_w_drain", "W"}

(* no other thread becomes a holder while the writer has been granted W *)
NoneAdmitted ==
    \A t \in Arrivals :
        (pc[Writer] \in {"take_w_drain", "W"} /\ pc[t] \notin {"R", "S", "A"})
            => pc'[t] \notin {"R", "S", "A"}

(* C30: a pl_take_w whose first fetch-add finds readers only is granted at
   that fetch-add, returns once the readers have called pl_drop_r whatever
   pl_take_r, pl_try_r, pl_take_s and pl_take_a calls arrive meanwhile, and
   none of those calls is admitted before the writer's pl_drop_w. *)
C30_WriterPreference ==
    /\ [][GrantedAtFirst]_vars
    /\ [][NoneAdmitted]_vars
    /\ (pc[Writer] = "take_w_drain") ~> (pc[Writer] = "W")

(* the writer waits for a reader to leave while a refused pl_take_s and a
   refused pl_take_a have not backed out yet *)
C30_Witness ==
    \E r, u, v \in Arrivals :
        /\ pc[Writer] = "take_w_drain"
        /\ pc[r] = "R" /\ pc[u] = "take_s_sub" /\ pc[v] = "take_a_sub"

(* ------------------------------------------------------------------ *)
(* The join next to atomic writers: the first NJoin threads take R and go
   R -> J -> C or R -> C, and leave through pl_drop_r, pl_drop_c or pl_ctoa
   and pl_drop_a; the NAttempt other threads call pl_take_a and pl_try_a
   and drop what they were granted. *)
AtomicStep(t) ==
    \/ pl_take_a(t) \/ pl_take_a_read(t) \/ pl_take_a_sub(t)
    \/ pl_take_a_wait(t)
    \/ pl_try_a(t) \/ pl_try_a_xadd(t) \/ pl_try_a_wait(t)
    \/ pl_try_a_sub(t)
    \/ pl_drop_a(t)

NextMeet ==
    \/ \E t \in Joiners : JoinerStep(t) \/ pl_drop_r(t)
    \/ \E t \in Attempters : AtomicStep(t)

SpecMeet == InitJoin /\ [][NextMeet]_vars

(* C31: when pl_rtoj returns with the S bits clear, no thread holds R
   without having added its W1 through pl_rtoj or pl_rtoc, also while other
   threads call pl_take_a or pl_try_a. *)
C31_RtojRendezvous ==
    [][\A t \in Joiners :
          (pc[t] \in {"R", "rtoj_wait"} /\ pc'[t] = "J"
              /\ ~Bits(lock', PLOCK32_SL_ANY))
          => \A u \in Joiners : pc'[u] # "R"]_vars

(* ------------------------------------------------------------------ *)
(* The commit mark: the joiners take R and go R -> J -> C through pl_rtoj
   and pl_jtoc only, and leave through pl_drop_c or through pl_ctoa and
   pl_drop_a; the other threads call pl_take_s and pl_take_w and drop what
   they were granted. *)
CommitStep(t) ==
    \/ pl_take_r(t) \/ pl_take_r_wait(t) \/ pl_take_r_xadd(t)
    \/ pl_take_r_sub(t)
    \/ pl_rtoj(t) \/ pl_rtoj_wait(t)
    \/ pl_jtoc(t) \/ pl_jtoc_or(t)
    \/ pl_drop_c(t) \/ pl_drop_c_and(t)
    \/ pl_ctoa(t) \/ pl_ctoa_wait(t) \/ pl_ctoa_and(t)
    \/ pl_drop_a(t)

NextCommit ==
    \/ \E t \in Joiners : CommitStep(t)
    \/ \E t \in Attempters :
          \/ pl_take_s(t) \/ pl_take_s_sub(t) \/ pl_take_s_wait(t)
          \/ pl_drop_s(t)
          \/ pl_take_w(t) \/ pl_take_w_sub(t) \/ pl_take_w_wait(t)
          \/ pl_take_w_drain(t) \/ pl_drop_w(t)

SpecCommit == InitJoin /\ [][NextCommit]_vars

(* C32: from the return of pl_jtoc to the caller's pl_drop_c or pl_ctoa
   the S field of the word carries the commit mark, set exactly once (S
   field equals 1) however many J holders called pl_jtoc, also while other
   threads attempt pl_take_s or pl_take_w. *)
C32_CommitMark ==
    \A t \in Joiners : pc[t] = "C" => SField(lock) = 1

(* the thread holds R, alone or under J or C *)
KeepsR(t) ==
    pc[t] \in {"R", "rtoj_wait", "J", "jtoc_or", "rtoc_wait", "rtoc_or", "C"}

(* C33: when pl_ctoa returns to a thread that was in C, every joiner has
   given up its R: the caller holds A and no other thread holds R, also
   while other threads attempt pl_take_s, pl_try_s or pl_take_w. *)
C33_CtoaNoReader ==
    [][\A t \in Joiners :
          (pc[t] \in {"C", "ctoa_wait", "ctoa_and"} /\ pc'[t] = "A")
          => \A u \in Joiners \ {t} : ~KeepsR(u)']_vars

(* C34: pl_try_rtow returns success only on a read of the word that gives
   exactly W1|S1|R1, when no other thread holds anything; when its
   fetch-add found a W or S bit set it takes its addition back and returns
   failure, still holding R, without waiting and without a second attempt. *)
C34_RtowExact ==
    [][\A t \in Threads :
          /\ (pc[t] \in {"R", "try_rtow_top", "try_rtow_drain"} /\ pc'[t] = "W")
              => /\ lock' = WSR_1
                 /\ \A u \in Threads \ {t} : Contribution(pc'[u]) = Zero32
          /\ (pc[t] = "R" /\ Bits(lock, WS_ANY)
                 /\ pc'[t] \in {"W", "try_rtow_drain", "try_rtow_undo"})
              => pc'[t] = "try_rtow_undo"
          /\ (pc[t] = "try_rtow_undo" /\ pc'[t] # pc[t]) => pc'[t] = "R"]_vars

(* one pl_try_rtow was granted and waits for a reader to leave, another was
   refused and has not taken its addition back yet *)
C34_Witness ==
    \E t, u, v \in Threads :
        pc[t] = "try_rtow_drain" /\ pc[u] = "try_rtow_undo" /\ pc[v] = "R"

(* no W, S or R bit is set in v: nothing in the word conflicts with any
   acquisition *)
NoHolderBits(v) == ~Bits(v, Or32(WS_ANY, PLOCK32_RL_ANY))

(* C35: every drop and downgrade is one subtraction after which the caller
   has returned, and a pl_take_r, pl_take_s, pl_take_w or pl_take_a called
   on a word without W, S or R bits while no other thread is inside a call
   returns after one fetch-add, without entering any wait loop. *)
C35_FastPath ==
    [][\A t \in Threads :
          /\ (pl_drop_r(t) \/ pl_drop_s(t) \/ pl_drop_w(t) \/ pl_drop_a(t)
                 \/ pl_drop_j(t))
              => pc'[t] = "U"
          /\ (pl_wtos(t) \/ pl_wtor(t) \/ pl_stor(t)) => pc'[t] \in {"S", "R"}
          /\ (Alone(t) /\ NoHolderBits(lock))
              => /\ pl_take_r(t) => pc'[t] = "take_r_xadd"
                 /\ pl_take_s(t) => pc'[t] = "S"
                 /\ pl_take_w(t) => pc'[t] = "W"
                 /\ pl_take_a(t) => pc'[t] = "A"
          /\ (pc[t] = "take_r_xadd" /\ NoHolderBits(lock)
                 /\ \A u \in Threads \ {t} : pc[u] = "U")
              => (pl_take_r_xadd(t) => pc'[t] = "R")]_vars

====
